---- MODULE Spec2Model ----
(***************************************************************************)
(* Model of the fenics-binder notebooks.                                   *)
(*                                                                         *)
(*   Spec         the splitcell extension (%load_ext splitcell,            *)
(*                %%split_cell, %run_split_cell) driven by the cells of    *)
(*                split-cell-example.ipynb, run in any order.              *)
(*   SpecMaxwell  demo_maxwell-eigenvalues.ipynb run top to bottom.        *)
(*   SpecEig      one call of eigenvalues(V, bcs) against a solver that    *)
(*                may converge any number of eigenvalues in any order.     *)
(*   SpecBoundary the Dirichlet boundary predicates of the Poisson,        *)
(*                nonlinear Poisson and biharmonic notebooks, applied to   *)
(*                the points of the unit square.                           *)
(*   SpecDemos    the Poisson, nonlinear Poisson, biharmonic and           *)
(*                Cahn-Hilliard notebooks run top to bottom, statement by  *)
(*                statement (SpecDemosFair: the same with progress).       *)
(*                                                                         *)
(* Cell text is a sequence of lines; a line is a record                    *)
(*   [ind |-> indentation level, kind |-> statement kind, name |-> label]  *)
(***************************************************************************)
EXTENDS Integers, Sequences, FiniteSets, TLC

VARIABLES
    \* ---- notebook kernel with the splitcell extension
    loaded,        \* %load_ext splitcell has been executed
    record,        \* the extension's record: sequence of cell texts
    ns,            \* notebook namespace: function name -> body (<<>> = unbound)
    executed,      \* the units handed to the shell for execution, in order
    history,       \* log of the cells the user executed (observer variable)
    callResult,    \* outcome of the last ordinary cell  myfunc(2, 3)
    \* ---- Maxwell notebook, run top to bottom
    pc,            \* position in the notebook
    hasPETSc,      \* has_linear_algebra_backend("PETSc")
    hasSLEPc,      \* has_slepc()
    exitMode,      \* how exit() behaves in the host interpreter
    exitRequested, \* exit() was called and the kernel stops after this cell
    output,        \* lines printed so far
    solverCalls,   \* number of SLEPcEigenSolver objects constructed
    frame,         \* activation of print_eigenvalues (NoFrame when not running)
    \* ---- one call of eigenvalues(V, bcs)
    epc,           \* position inside eigenvalues
    nconv,         \* solver.get_number_converged()
    i,             \* loop index of the collecting loop
    lastIndex,     \* last index passed to solver.get_eigenvalue, -1 if none
    lastPair,      \* last (real, imaginary) pair solver.get_eigenvalue returned
    computed_eigenvalues,  \* the list being collected
    eigResult,     \* the returned array
    \* ---- a Dirichlet boundary predicate applied to a point
    x_pt,          \* the argument x: the point <<x[0], x[1]>>, in grid units
    on_boundary,   \* the flag the library passes for the point
    inside,        \* the predicate evaluated last and what it returned
    \* ---- the PDE notebooks, run top to bottom
    nb,            \* the notebook being run
    dpc,           \* index of the next statement of the notebook
    phase,         \* highest step letter (a..f as 1..6) executed so far
    lastLetter,    \* step letter of the statement executed last (0: none)
    done,          \* kinds of the statements executed so far
    files,         \* names of the files written so far, in order
    plots,         \* number of plot(...) calls so far
    dsolves,       \* number of solve calls that have returned
    nprocs,        \* number of MPI processes running the notebook
    seeds,         \* per rank: the value passed to random.seed (<<>> before)
    t_now,         \* Cahn-Hilliard: the time t, a double
    T,             \* Cahn-Hilliard: the terminal time T, a double
    steps,         \* Cahn-Hilliard: time steps started
    u_cur,         \* Cahn-Hilliard: value of the current solution u
    u0,            \* Cahn-Hilliard: value of the previous-step function u0
    uPrev,         \* value u had when the preceding step ended (observer)
    written        \* Cahn-Hilliard: the times t written to output.pvd

kernelVars == <<loaded, record, ns, executed, history, callResult>>
maxwellVars == <<pc, hasPETSc, hasSLEPc, exitMode, exitRequested, output, solverCalls, frame>>
eigVars == <<epc, nconv, i, lastIndex, lastPair, computed_eigenvalues, eigResult>>
bndVars == <<x_pt, on_boundary, inside>>
demoVars == <<nb, dpc, phase, lastLetter, done, files, plots, dsolves, nprocs, seeds,
              t_now, T, steps, u_cur, u0, uPrev, written>>
otherVars == <<bndVars, demoVars>>
vars == <<kernelVars, maxwellVars, eigVars, otherVars>>

\* ------------------------------------------------------------------ bounds
\* number of cells the user executes in the free-order kernel run
MaxCells == 5
\* largest number of eigenvalues the solver may report as converged
MaxConverged == 13
\* largest m, n of the exact eigenvalues m^2 + n^2 compared against
MaxMN == 7

\* ------------------------------------------------------------- cell text
Line(ind, kind, name) == [ind |-> ind, kind |-> kind, name |-> name]

\* split-cell-example.ipynb, cell 2:  def myfunc(a, b):  + docstring
FragMyfuncHead ==
    << Line(0, "def", "myfunc"), Line(1, "doc", "multiply a * b") >>

\* faulty variant: the sum instead of the product
FragMyfuncReturnAdd == << Line(1, "return_add", "a + b") >>
\* split-cell-example.ipynb, cell 4:      return a * b
FragMyfuncReturn == << Line(1, "return_mul", "a * b") >>

\* demo_maxwell-eigenvalues.ipynb: the seven fragments of eigenvalues
FragEigHead == << Line(0, "def", "eigenvalues") >>
FragEigForms ==
    << Line(1, "stmt", "u = TrialFunction(V)"),
       Line(1, "stmt", "v = TestFunction(V)"),
       Line(1, "stmt", "a = inner(curl(u), curl(v))*dx"),
       Line(1, "stmt", "b = inner(u, v)*dx") >>
FragEigAssemble ==
    << Line(1, "stmt", "dummy = v[0]*dx"),
       Line(1, "stmt", "A = PETScMatrix()"),
       Line(1, "stmt", "assemble_system(a, dummy, bcs, A_tensor=A)"),
       Line(1, "stmt", "B = PETScMatrix()"),
       Line(1, "stmt", "assemble_system(b, dummy, bcs, A_tensor=B)") >>
FragEigZero == << Line(1, "stmt", "[bc.zero(B) for bc in bcs]") >>
FragEigSolver ==
    << Line(1, "new_solver", "solver = SLEPcEigenSolver(A, B)"),
       Line(1, "stmt", "solver.parameters[solver] = krylov-schur"),
       Line(1, "stmt", "solver.parameters[problem_type] = gen_hermitian") >>
FragEigSolve ==
    << Line(1, "stmt", "solver.parameters[spectrum] = target magnitude"),
       Line(1, "stmt", "solver.parameters[spectral_transform] = shift-and-invert"),
       Line(1, "stmt", "solver.parameters[spectral_shift] = 5.5"),
       Line(1, "stmt", "neigs = 12"),
       Line(1, "solve", "solver.solve(neigs)") >>
FragEigCollect ==
    << Line(1, "stmt", "computed_eigenvalues = []"),
       Line(1, "collect", "for i in range(min(neigs, solver.get_number_converged()))"),
       Line(1, "return_sort", "return np.sort(np.array(computed_eigenvalues))") >>

\* demo_maxwell-eigenvalues.ipynb: the five fragments of print_eigenvalues
FragPrintHead == << Line(0, "def", "print_eigenvalues") >>
FragPrintNedelec ==
    << Line(1, "stmt", "nedelec_V = FunctionSpace(mesh, N1curl, 1)"),
       Line(1, "stmt", "nedelec_bcs = [DirichletBC(...)]"),
       Line(1, "call_eig", "nedelec_eig = eigenvalues(nedelec_V, nedelec_bcs)") >>
FragPrintLagrange ==
    << Line(1, "stmt", "lagrange_V = VectorFunctionSpace(mesh, Lagrange, 1)"),
       Line(1, "stmt", "lagrange_bcs = [DirichletBC(...), DirichletBC(...)]"),
       Line(1, "call_eig", "lagrange_eig = eigenvalues(lagrange_V, lagrange_bcs)") >>
FragPrintTrue == << Line(1, "true_eig", "true_eig = np.sort(np.array([...]))[1:13]") >>
FragPrintOut ==
    << Line(1, "stmt", "np.set_printoptions(...)"),
       Line(1, "print", "Nedelec"),
       Line(1, "print", "Lagrange"),
       Line(1, "print", "Exact") >>

\* the function names the notebooks define
Names == {"myfunc", "eigenvalues", "print_eigenvalues"}

\* the fragments the user of the free-order kernel run may record
Fragments == {FragMyfuncHead, FragMyfuncReturn, FragEigHead}

\* ------------------------------------------------- executing a cell's text
\* Python compiles the whole cell before running any of it: an indented line
\* must continue a def block, and a def header must be followed by a body.
Compiles(text) ==
    \A k \in 1..Len(text) :
        /\ text[k].ind = 1 =>
              /\ k > 1
              /\ (text[k-1].ind = 1 \/ text[k-1].kind = "def")
        /\ text[k].kind = "def" =>
              /\ k < Len(text)
              /\ text[k+1].ind = 1

\* index of the last line of the block that starts after line k
RECURSIVE BlockEnd(_, _)
BlockEnd(text, k) ==
    IF k < Len(text) /\ text[k+1].ind = 1 THEN BlockEnd(text, k+1) ELSE k

\* body of the def whose header is line k
FunctionBody(text, k) == SubSeq(text, k+1, BlockEnd(text, k))

\* header lines of the defs of name nm in text
DefsOf(text, nm) ==
    {k \in 1..Len(text) : text[k].kind = "def" /\ text[k].name = nm}

Max(S) == CHOOSE x \in S : \A y \in S : y <= x
Min(a, b) == IF a <= b THEN a ELSE b

\* shell.run_cell(text): a cell that does not compile runs nothing; otherwise
\* every def statement binds its name, a later def replacing an earlier one.
RunCell(space, text) ==
    IF ~Compiles(text) THEN space
    ELSE [nm \in Names |->
            IF DefsOf(text, nm) = {} THEN space[nm]
            ELSE FunctionBody(text, Max(DefsOf(text, nm)))]

Unbound == <<>>
EmptyNamespace == [nm \in Names |-> Unbound]

\* calling a two-argument function: the first return statement decides
CallFunction(body, a, b) ==
    LET rets == {k \in 1..Len(body) : body[k].kind \in {"return_mul", "return_add"}}
    IN  IF rets = {} THEN [status |-> "None", val |-> 0]
        ELSE LET r == body[CHOOSE k \in rets : \A j \in rets : k <= j]
             IN  [status |-> "ok",
                  val |-> IF r.kind = "return_mul" THEN a * b ELSE a + b]

\* the ordinary cell  myfunc(2, 3)
CallMyfuncCell(space) ==
    IF space["myfunc"] = Unbound THEN [status |-> "NameError", val |-> 0]
    ELSE CallFunction(space["myfunc"], 2, 3)

NoCall == [status |-> "none", val |-> 0]

\* ------------------------------------------------ the splitcell extension
\* %%split_cell: record the cell as a fragment rather than executing it
split_cell(rec, cell) == Append(rec, cell)

\* the namespace after %%split_cell: the cell is not executed
\* faulty variant: the cell is executed at once
NamespaceAfterSplitExecuted(space, cell) == RunCell(space, cell)
NamespaceAfterSplit(space, cell) == space

\* the unit %run_split_cell executes: the recorded fragments, in order
\* faulty variant: the fragments in reverse order
RECURSIVE JoinReversed(_)
JoinReversed(rec) ==
    IF rec = <<>> THEN <<>> ELSE JoinReversed(Tail(rec)) \o Head(rec)
RECURSIVE JoinCells(_)
JoinCells(rec) ==
    IF rec = <<>> THEN <<>> ELSE Head(rec) \o JoinCells(Tail(rec))

\* the record %run_split_cell leaves behind
\* faulty variant: the record is not reset
RecordKept(rec) == rec
RecordAfterRun(rec) == <<>>

\* ------------------------------------------------------ kernel actions
InitKernel ==
    /\ loaded = FALSE
    /\ record = <<>>
    /\ ns = EmptyNamespace
    /\ executed = <<>>
    /\ history = <<>>
    /\ callResult = NoCall

NoFrame == [active |-> FALSE, mesh |-> "", ip |-> 0, m |-> 0, n |-> 0,
            lst |-> <<>>, sorted |-> <<>>, true_eig |-> <<>>]

InitMaxwellIdle ==
    /\ pc = [cell |-> 0, stage |-> "idle"]
    /\ hasPETSc = TRUE
    /\ hasSLEPc = TRUE
    /\ exitMode = "raise"
    /\ exitRequested = FALSE
    /\ output = <<>>
    /\ solverCalls = 0
    /\ frame = NoFrame

InitEigIdle ==
    /\ epc = "idle"
    /\ nconv = 0
    /\ i = 0
    /\ lastIndex = -1
    /\ lastPair = <<0, 0>>
    /\ computed_eigenvalues = <<>>
    /\ eigResult = <<>>

\* a double, as its value in units of 2^-70: three limbs of 24 bits,
\* most significant first
ZeroDouble == <<0, 0, 0>>

InitBoundaryIdle ==
    /\ x_pt = <<0, 0>>
    /\ on_boundary = FALSE
    /\ inside = [fn |-> "none", val |-> FALSE]

InitDemosIdle ==
    /\ nb = "none"
    /\ dpc = 0
    /\ phase = 0
    /\ lastLetter = 0
    /\ done = {}
    /\ files = <<>>
    /\ plots = 0
    /\ dsolves = 0
    /\ nprocs = 0
    /\ seeds = <<>>
    /\ t_now = ZeroDouble
    /\ T = ZeroDouble
    /\ steps = 0
    /\ u_cur = 0
    /\ u0 = 0
    /\ uPrev = 0
    /\ written = <<>>

InitOtherIdle == InitBoundaryIdle /\ InitDemosIdle

\* %load_ext splitcell: loading an extension twice does nothing
DoLoadExt ==
    /\ loaded' = TRUE
    /\ record' = IF loaded THEN record ELSE <<>>
    /\ history' = Append(history, [op |-> "load", cell |-> <<>>])
    /\ UNCHANGED <<ns, executed, callResult>>

\* %%split_cell with the cell text `cell`; an unknown magic is a usage error
DoSplitCell(cell) ==
    /\ record' = IF loaded THEN split_cell(record, cell) ELSE record
    /\ ns' = IF loaded THEN NamespaceAfterSplit(ns, cell) ELSE ns
    /\ history' = Append(history, [op |-> "split", cell |-> cell])
    /\ UNCHANGED <<loaded, executed, callResult>>

\* %run_split_cell
DoRunSplitCell ==
    /\ IF loaded
       THEN /\ executed' = Append(executed, JoinCells(record))
            /\ ns' = RunCell(ns, JoinCells(record))
            /\ record' = RecordAfterRun(record)
       ELSE UNCHANGED <<executed, ns, record>>
    /\ history' = Append(history, [op |-> "run", cell |-> <<>>])
    /\ UNCHANGED <<loaded, callResult>>

\* the ordinary cell  myfunc(2, 3)
DoCallMyfunc ==
    /\ callResult' = CallMyfuncCell(ns)
    /\ history' = Append(history, [op |-> "call", cell |-> <<>>])
    /\ UNCHANGED <<loaded, record, ns, executed>>

LoadExt == Len(history) < MaxCells /\ DoLoadExt /\ UNCHANGED <<maxwellVars, eigVars, otherVars>>
SplitCell ==
    /\ Len(history) < MaxCells
    /\ \E cell \in Fragments : DoSplitCell(cell)
    /\ UNCHANGED <<maxwellVars, eigVars, otherVars>>
RunSplitCell == Len(history) < MaxCells /\ DoRunSplitCell /\ UNCHANGED <<maxwellVars, eigVars, otherVars>>
CallMyfunc == Len(history) < MaxCells /\ DoCallMyfunc /\ UNCHANGED <<maxwellVars, eigVars, otherVars>>

Init == InitKernel /\ InitMaxwellIdle /\ InitEigIdle /\ InitOtherIdle
Next == LoadExt \/ SplitCell \/ RunSplitCell \/ CallMyfunc
Spec == Init /\ [][Next]_vars

\* ===================================================== Maxwell notebook
\* the code cells of demo_maxwell-eigenvalues.ipynb, in notebook order
Cell(kind, text) == [kind |-> kind, text |-> text]
MaxwellCells ==
    << Cell("load", <<>>),
       Cell("preamble", <<>>),
       Cell("split", FragEigHead),
       Cell("split", FragEigForms),
       Cell("split", FragEigAssemble),
       Cell("split", FragEigZero),
       Cell("split", FragEigSolver),
       Cell("split", FragEigSolve),
       Cell("split", FragEigCollect),
       Cell("run", <<>>),
       Cell("split", FragPrintHead),
       Cell("split", FragPrintNedelec),
       Cell("split", FragPrintLagrange),
       Cell("split", FragPrintTrue),
       Cell("split", FragPrintOut),
       Cell("run", <<>>),
       Cell("calls", <<>>) >>

\* where execution stands when cell k is about to start
AtCell(k) ==
    IF k > Len(MaxwellCells) THEN [cell |-> k, stage |-> "done"]
    ELSE [cell |-> k,
          stage |-> CASE MaxwellCells[k].kind = "preamble" -> "petsc"
                      [] MaxwellCells[k].kind = "calls" -> "diag"
                      [] OTHER -> "cell"]
Exited(k) == [cell |-> k, stage |-> "exited"]

MsgPETSc == "DOLFIN has not been configured with PETSc. Exiting."
MsgSLEPc == "DOLFIN has not been configured with SLEPc. Exiting."

\* exit(): the interpreter's site builtin raises SystemExit on the spot
\* ("raise"); the notebook kernel's exit autocall only asks the kernel to
\* shut down, which it does once the running cell has finished ("deferred").
ExitModes == {"raise", "deferred"}
\* faulty variant: the exit() call is missing
ExitCallMissing(mode) == [stops |-> FALSE, requested |-> FALSE]
ExitCall(mode) == [stops |-> mode = "raise", requested |-> TRUE]

InitMaxwell ==
    /\ InitKernel
    /\ InitEigIdle
    /\ InitOtherIdle
    /\ pc = AtCell(1)
    /\ hasPETSc \in BOOLEAN
    /\ hasSLEPc \in BOOLEAN
    /\ exitMode \in ExitModes
    /\ exitRequested = FALSE
    /\ output = <<>>
    /\ solverCalls = 0
    /\ frame = NoFrame

AtPlainCell(kind) ==
    /\ pc.stage = "cell"
    /\ MaxwellCells[pc.cell].kind = kind

\* %load_ext splitcell ; from dolfin import *
MxLoadExt ==
    /\ AtPlainCell("load")
    /\ DoLoadExt
    /\ pc' = AtCell(pc.cell + 1)
    /\ UNCHANGED <<hasPETSc, hasSLEPc, exitMode, exitRequested, output, solverCalls, frame>>
    /\ UNCHANGED <<eigVars, otherVars>>

MxSplitCell ==
    /\ AtPlainCell("split")
    /\ DoSplitCell(MaxwellCells[pc.cell].text)
    /\ pc' = AtCell(pc.cell + 1)
    /\ UNCHANGED <<hasPETSc, hasSLEPc, exitMode, exitRequested, output, solverCalls, frame>>
    /\ UNCHANGED <<eigVars, otherVars>>

MxRunSplitCell ==
    /\ AtPlainCell("run")
    /\ DoRunSplitCell
    /\ pc' = AtCell(pc.cell + 1)
    /\ UNCHANGED <<hasPETSc, hasSLEPc, exitMode, exitRequested, output, solverCalls, frame>>
    /\ UNCHANGED <<eigVars, otherVars>>

\* if not has_linear_algebra_backend("PETSc"): print(...); exit()
MxCheckPETSc ==
    /\ pc.stage = "petsc"
    /\ IF hasPETSc
       THEN /\ pc' = [pc EXCEPT !.stage = "slepc"]
            /\ UNCHANGED <<output, exitRequested>>
       ELSE /\ output' = Append(output, MsgPETSc)
            /\ exitRequested' = (exitRequested \/ ExitCall(exitMode).requested)
            /\ pc' = IF ExitCall(exitMode).stops THEN Exited(pc.cell)
                     ELSE [pc EXCEPT !.stage = "slepc"]
    /\ UNCHANGED <<hasPETSc, hasSLEPc, exitMode, solverCalls, frame>>
    /\ UNCHANGED <<kernelVars, eigVars, otherVars>>

\* if not has_slepc(): print(...); exit()
MxCheckSLEPc ==
    /\ pc.stage = "slepc"
    /\ IF hasSLEPc
       THEN /\ pc' = [pc EXCEPT !.stage = "end"]
            /\ UNCHANGED <<output, exitRequested>>
       ELSE /\ output' = Append(output, MsgSLEPc)
            /\ exitRequested' = (exitRequested \/ ExitCall(exitMode).requested)
            /\ pc' = IF ExitCall(exitMode).stops THEN Exited(pc.cell)
                     ELSE [pc EXCEPT !.stage = "end"]
    /\ UNCHANGED <<hasPETSc, hasSLEPc, exitMode, solverCalls, frame>>
    /\ UNCHANGED <<kernelVars, eigVars, otherVars>>

\* the preamble cell is over: a kernel asked to exit stops here
MxPreambleEnd ==
    /\ pc.stage = "end"
    /\ pc' = IF exitRequested THEN Exited(pc.cell) ELSE AtCell(pc.cell + 1)
    /\ UNCHANGED <<hasPETSc, hasSLEPc, exitMode, exitRequested, output, solverCalls, frame>>
    /\ UNCHANGED <<kernelVars, eigVars, otherVars>>

\* ------------------------------------------------------ numpy helpers
RECURSIVE InsertSorted(_, _)
InsertSorted(x, s) ==
    IF s = <<>> THEN <<x>>
    ELSE IF x <= Head(s) THEN <<x>> \o s
         ELSE <<Head(s)>> \o InsertSorted(x, Tail(s))

\* np.sort(np.array(s)): ascending
\* faulty variant: descending order
RECURSIVE NpSortDescending(_)
NpSortDescending(s) ==
    IF s = <<>> THEN <<>>
    ELSE LET t == NpSortDescending(Tail(s))
             before == SelectSeq(t, LAMBDA y : y >= Head(s))
             after == SelectSeq(t, LAMBDA y : y < Head(s))
         IN  before \o <<Head(s)>> \o after
RECURSIVE NpSort(_)
NpSort(s) == IF s = <<>> THEN <<>> ELSE InsertSorted(Head(s), NpSort(Tail(s)))

\* s[lo:hi] with Python's clamping of the bounds
PySlice(s, lo, hi) == SubSeq(s, Min(lo, Len(s)) + 1, Min(hi, Len(s)))

\* ------------------------------------------- print_eigenvalues(mesh)
\* range(6) of both loops of the list comprehension
RangeMN == 6
\* float(m**2 + n**2)
ComprehensionItem(m, n) == m * m + n * n
\* ...[1:13]
\* faulty variant: [0:12], which keeps the 0
TrueEigSliceFromZero(s) == PySlice(s, 0, 12)
TrueEigSlice(s) == PySlice(s, 1, 13)

CountKind(body, kind) == Cardinality({k \in 1..Len(body) : body[k].kind = kind})

\* mesh = RectangleMesh(...); print(...); print_eigenvalues(mesh)
MxCallPrint ==
    /\ pc.stage \in {"diag", "crossed"}
    /\ output' = Append(output, IF pc.stage = "diag" THEN "diagonal mesh" ELSE "crossed mesh")
    /\ IF ns["print_eigenvalues"] = Unbound
       THEN \* NameError: the cell stops
            /\ pc' = AtCell(pc.cell + 1)
            /\ frame' = NoFrame
       ELSE /\ pc' = [pc EXCEPT !.stage = "body"]
            /\ frame' = [NoFrame EXCEPT !.active = TRUE, !.ip = 1,
                            !.mesh = IF pc.stage = "diag" THEN "diagonal" ELSE "crossed"]
    /\ UNCHANGED <<hasPETSc, hasSLEPc, exitMode, exitRequested, solverCalls>>
    /\ UNCHANGED <<kernelVars, eigVars, otherVars>>

InBody(kinds) ==
    /\ pc.stage = "body"
    /\ frame.ip <= Len(ns["print_eigenvalues"])
    /\ ns["print_eigenvalues"][frame.ip].kind \in kinds

\* a statement that only builds library objects
MxSimpleStatement ==
    /\ InBody({"stmt", "doc"})
    /\ frame' = [frame EXCEPT !.ip = @ + 1]
    /\ UNCHANGED <<pc, hasPETSc, hasSLEPc, exitMode, exitRequested, output, solverCalls>>
    /\ UNCHANGED <<kernelVars, eigVars, otherVars>>

\* print("...: {}".format(...))
MxPrint ==
    /\ InBody({"print"})
    /\ output' = Append(output, ns["print_eigenvalues"][frame.ip].name)
    /\ frame' = [frame EXCEPT !.ip = @ + 1]
    /\ UNCHANGED <<pc, hasPETSc, hasSLEPc, exitMode, exitRequested, solverCalls>>
    /\ UNCHANGED <<kernelVars, eigVars, otherVars>>

\* ..._eig = eigenvalues(V, bcs): the callee's body runs, constructing its
\* SLEPcEigenSolver; the values it returns are the subject of SpecEig and
\* are not carried in this run.
MxCallEigenvalues ==
    /\ InBody({"call_eig"})
    /\ IF ns["eigenvalues"] = Unbound
       THEN \* NameError: print_eigenvalues and the cell stop
            /\ pc' = AtCell(pc.cell + 1)
            /\ frame' = NoFrame
            /\ UNCHANGED solverCalls
       ELSE /\ solverCalls' = solverCalls + CountKind(ns["eigenvalues"], "new_solver")
            /\ frame' = [frame EXCEPT !.ip = @ + 1]
            /\ UNCHANGED pc
    /\ UNCHANGED <<hasPETSc, hasSLEPc, exitMode, exitRequested, output>>
    /\ UNCHANGED <<kernelVars, eigVars, otherVars>>

\* true_eig = ...: the list comprehension starts
MxTrueEigStart ==
    /\ InBody({"true_eig"})
    /\ pc' = [pc EXCEPT !.stage = "comp"]
    /\ frame' = [frame EXCEPT !.m = 0, !.n = 0, !.lst = <<>>]
    /\ UNCHANGED <<hasPETSc, hasSLEPc, exitMode, exitRequested, output, solverCalls>>
    /\ UNCHANGED <<kernelVars, eigVars, otherVars>>

\* one item of [float(m**2 + n**2) for m in range(6) for n in range(6)]
MxComprehensionStep ==
    /\ pc.stage = "comp"
    /\ frame.m < RangeMN
    /\ frame' = [frame EXCEPT
                    !.lst = Append(@, ComprehensionItem(frame.m, frame.n)),
                    !.n = IF frame.n + 1 < RangeMN THEN frame.n + 1 ELSE 0,
                    !.m = IF frame.n + 1 < RangeMN THEN frame.m ELSE frame.m + 1]
    /\ UNCHANGED <<pc, hasPETSc, hasSLEPc, exitMode, exitRequested, output, solverCalls>>
    /\ UNCHANGED <<kernelVars, eigVars, otherVars>>

\* np.sort(np.array([...]))[1:13]
MxTrueEigFinish ==
    /\ pc.stage = "comp"
    /\ frame.m >= RangeMN
    /\ frame' = [frame EXCEPT !.sorted = NpSort(frame.lst),
                              !.true_eig = TrueEigSlice(NpSort(frame.lst)),
                              !.ip = @ + 1]
    /\ pc' = [pc EXCEPT !.stage = "body"]
    /\ UNCHANGED <<hasPETSc, hasSLEPc, exitMode, exitRequested, output, solverCalls>>
    /\ UNCHANGED <<kernelVars, eigVars, otherVars>>

\* the end of the body: back in the calling cell
MxReturn ==
    /\ pc.stage = "body"
    /\ frame.ip > Len(ns["print_eigenvalues"])
    /\ pc' = IF frame.mesh = "diagonal" THEN [pc EXCEPT !.stage = "crossed"]
             ELSE AtCell(pc.cell + 1)
    /\ frame' = NoFrame
    /\ UNCHANGED <<hasPETSc, hasSLEPc, exitMode, exitRequested, output, solverCalls>>
    /\ UNCHANGED <<kernelVars, eigVars, otherVars>>

NextMaxwell ==
    \/ MxLoadExt \/ MxSplitCell \/ MxRunSplitCell
    \/ MxCheckPETSc \/ MxCheckSLEPc \/ MxPreambleEnd
    \/ MxCallPrint \/ MxSimpleStatement \/ MxPrint \/ MxCallEigenvalues
    \/ MxTrueEigStart \/ MxComprehensionStep \/ MxTrueEigFinish \/ MxReturn
SpecMaxwell == InitMaxwell /\ [][NextMaxwell]_vars

\* ================================================== eigenvalues(V, bcs)
\* neigs = 12
neigs == 12

\* the (real, imaginary) pairs solver.get_eigenvalue may return
SolverPairs == {<<1, 0>>, <<2, 0>>, <<2, 1>>}

\* solver.parameters["spectrum"] = "target magnitude" with
\* solver.parameters["spectral_shift"] = 5.5: twice the distance |v - 5.5|
Abs(x) == IF x < 0 THEN -x ELSE x
\* faulty variant: a shift of 7.5
TwiceDistanceToShiftHigh(v) == Abs(2 * v - 15)
TwiceDistanceToShift(v) == Abs(2 * v - 11)

\* range(min(neigs, solver.get_number_converged()))
\* faulty variant: range(neigs), ignoring the converged count
LoopCountRequested(requested, converged) == requested
LoopCount(requested, converged) == Min(requested, converged)

\* r, _ = solver.get_eigenvalue(i)   # ignore the imaginary part
KeptPart(pair) == pair[1]

InitEig ==
    /\ InitKernel
    /\ InitMaxwellIdle
    /\ InitOtherIdle
    /\ epc = "solve"
    /\ nconv = 0
    /\ i = 0
    /\ lastIndex = -1
    /\ lastPair = <<0, 0>>
    /\ computed_eigenvalues = <<>>
    /\ eigResult = <<>>

\* solver.solve(neigs): the solver converges some number of eigenvalues,
\* which may be more or less than the number requested
EigSolve ==
    /\ epc = "solve"
    /\ \E c \in 0..MaxConverged : nconv' = c
    /\ epc' = "collect"
    /\ computed_eigenvalues' = <<>>
    /\ i' = 0
    /\ UNCHANGED <<lastIndex, lastPair, eigResult>>
    /\ UNCHANGED <<kernelVars, maxwellVars, otherVars>>

\* one pass of the collecting loop
EigCollect ==
    /\ epc = "collect"
    /\ i < LoopCount(neigs, nconv)
    /\ \E pair \in SolverPairs :
          /\ lastPair' = pair
          /\ computed_eigenvalues' = Append(computed_eigenvalues, KeptPart(pair))
    /\ lastIndex' = i
    /\ i' = i + 1
    /\ UNCHANGED <<epc, nconv, eigResult>>
    /\ UNCHANGED <<kernelVars, maxwellVars, otherVars>>

\* return np.sort(np.array(computed_eigenvalues))
EigReturn ==
    /\ epc = "collect"
    /\ i >= LoopCount(neigs, nconv)
    /\ eigResult' = NpSort(computed_eigenvalues)
    /\ epc' = "done"
    /\ UNCHANGED <<nconv, i, lastIndex, lastPair, computed_eigenvalues>>
    /\ UNCHANGED <<kernelVars, maxwellVars, otherVars>>

NextEig == EigSolve \/ EigCollect \/ EigReturn
SpecEig == InitEig /\ [][NextEig]_vars

\* ============================================ Dirichlet boundary predicates
\* Coordinates are integers: 1.0 is GridN grid units and DOLFIN_EPS is
\* DOLFIN_EPS grid units, so that a point can lie on an edge, within
\* DOLFIN_EPS of it, exactly DOLFIN_EPS away from it, or further inside.

GridN == 8
DOLFIN_EPS == 2

\* the literal 1.0
One == GridN

\* the points of the unit square [0, 1] x [0, 1]
Coords == 0..One
Points == Coords \X Coords

\* what the library passes as on_boundary for a point of the mesh of the
\* unit square: whether the point lies on the boundary of the domain
OnBoundary(x) == x[1] = 0 \/ x[1] = One \/ x[2] = 0 \/ x[2] = One

\* x[0] and x[1] of the source are the first and second coordinate
boundaryLeftOnly(x) == x[1] < DOLFIN_EPS

\* Poisson: def boundary(x)
boundary(x) == x[1] < DOLFIN_EPS \/ x[1] > One - DOLFIN_EPS

NonlinearInsideAnywhere(x, onb) == Abs(x[1] - One) < DOLFIN_EPS

\* nonlinear Poisson: DirichletBoundary.inside(self, x, on_boundary)
NonlinearInside(x, onb) == Abs(x[1] - One) < DOLFIN_EPS /\ onb

BiharmonicInsideAll(x, onb) == TRUE

\* biharmonic: DirichletBoundary.inside(self, x, on_boundary)
BiharmonicInside(x, onb) == onb

InitBoundary ==
    /\ InitKernel
    /\ InitMaxwellIdle
    /\ InitEigIdle
    /\ InitDemosIdle
    /\ x_pt \in Points
    /\ on_boundary = OnBoundary(x_pt)
    /\ inside = [fn |-> "none", val |-> FALSE]

\* DirichletBC(V, u0, boundary) asks the predicate about the point
EvalPoisson ==
    /\ inside' = [fn |-> "poisson", val |-> boundary(x_pt)]
    /\ UNCHANGED <<x_pt, on_boundary, kernelVars, maxwellVars, eigVars, demoVars>>

EvalNonlinear ==
    /\ inside' = [fn |-> "nonlinear", val |-> NonlinearInside(x_pt, on_boundary)]
    /\ UNCHANGED <<x_pt, on_boundary, kernelVars, maxwellVars, eigVars, demoVars>>

EvalBiharmonic ==
    /\ inside' = [fn |-> "biharmonic", val |-> BiharmonicInside(x_pt, on_boundary)]
    /\ UNCHANGED <<x_pt, on_boundary, kernelVars, maxwellVars, eigVars, demoVars>>

NextBoundary == EvalPoisson \/ EvalNonlinear \/ EvalBiharmonic

SpecBoundary == InitBoundary /\ [][NextBoundary]_vars

\* ======================================================= the PDE notebooks
\* ---- doubles
\* A double is held as its exact value in units of 2^-70, an integer below
\* 2^72 written as three limbs of 24 bits, most significant first.  Every
\* double the time loop meets (dt, T and the partial sums of dt) is a whole
\* number of these units.

LimbBase == 16777216
MantissaBits == 53

\* number of binary digits of n, 0 <= n < LimbBase
BitLen(n) == CHOOSE b \in 0..24 : n < 2^b /\ (b = 0 \/ n >= 2^(b - 1))

\* digits of an exact value that do not fit the 53-bit mantissa
ExcessBits(a) ==
    IF a[1] = 0 THEN 0 ELSE Max({0, 48 + BitLen(a[1]) - MantissaBits})

\* a + b, exact
AddExact(a, b) ==
    LET lo == a[3] + b[3]
        mi == a[2] + b[2] + (lo \div LimbBase)
        hi == a[1] + b[1] + (mi \div LimbBase)
    IN  <<hi, mi % LimbBase, lo % LimbBase>>

\* k * a, exact, for a small integer k
MulExact(k, a) ==
    LET lo == k * a[3]
        mi == k * a[2] + (lo \div LimbBase)
        hi == k * a[1] + (mi \div LimbBase)
    IN  <<hi, mi % LimbBase, lo % LimbBase>>

\* the double nearest to an exact value, ties to the even mantissa
RoundDouble(a) ==
    LET q == 2^ExcessBits(a)
        r == a[3] % q
        down == a[3] - r
        up == (2 * r > q) \/ (2 * r = q /\ (a[3] \div q) % 2 = 1)
    IN  IF ~up THEN <<a[1], a[2], down>>
        ELSE AddExact(<<a[1], a[2], down>>, <<0, 0, q>>)

\* a < b
DoubleLess(a, b) ==
    \/ a[1] < b[1]
    \/ a[1] = b[1] /\ a[2] < b[2]
    \/ a[1] = b[1] /\ a[2] = b[2] /\ a[3] < b[3]

\* dt = 5.0e-06, the double nearest to 0.000005
dt == <<20, 16299400, 14903537>>

NumSteps == 50

TerminalTimeShort(d) == RoundDouble(MulExact(NumSteps - 1, d))

\* T = 50*dt
TerminalTime(d) == RoundDouble(MulExact(NumSteps, d))

\* ---- the notebooks as statement lists
\* A statement has a kind, the letter of the step of the common outline it
\* belongs to (1: import the library, 2: build mesh and function space,
\* 3: define boundary predicates and source-term expressions, 4: build the
\* symbolic form, 5: call the solve entry point, 6: write output and plot;
\* 0: settings that belong to no step) and, where it matters, an argument.
St(kind, letter, arg) == [kind |-> kind, letter |-> letter, arg |-> arg]

PoissonProgram ==
    << St("import", 1, "dolfin"), St("import", 1, "matplotlib"),
       St("config", 0, "plotting_backend"),
       St("mesh", 2, ""), St("space", 2, ""),
       St("predicate", 3, "boundary"),
       St("expr", 3, "u0"), St("bc", 3, ""),
       St("trial", 4, "u"), St("trial", 4, "v"),
       St("expr", 3, "f"), St("expr", 3, "g"),
       St("form", 4, "a"), St("form", 4, "L"),
       St("function", 4, "u"), St("solve", 5, ""),
       St("file", 6, "poisson.pvd"), St("write", 6, "poisson.pvd"),
       St("figure", 6, ""), St("plot", 6, "u") >>

NonlinearProgram ==
    << St("import", 1, "dolfin"), St("import", 1, "matplotlib"),
       St("config", 0, "plotting_backend"),
       St("predicate", 3, "DirichletBoundary"),
       St("mesh", 2, ""), St("write", 6, "mesh.pvd"), St("space", 2, ""),
       St("expr", 3, "g"), St("bc", 3, ""),
       St("function", 4, "u"), St("trial", 4, "v"),
       St("expr", 3, "f"), St("form", 4, "F"),
       St("solve", 5, ""),
       St("figure", 6, ""), St("plot", 6, "u"),
       St("figure", 6, ""), St("plot", 6, "grad(u)"), St("show", 6, ""),
       St("file", 6, "nonlinear_poisson.pvd"),
       St("write", 6, "nonlinear_poisson.pvd") >>

BiharmonicProgram ==
    << St("import", 1, "dolfin"), St("import", 1, "matplotlib"),
       St("config", 0, "plotting_backend"), St("config", 0, "form_compiler"),
       St("config", 0, "ghost_mode"),
       St("mesh", 2, ""), St("space", 2, ""),
       St("predicate", 3, "DirichletBoundary"), St("predicate", 3, "Source"),
       St("expr", 3, "u0"), St("bc", 3, ""),
       St("trial", 4, "u"), St("trial", 4, "v"),
       St("form", 4, "h"), St("form", 4, "h_avg"), St("form", 4, "n"),
       St("expr", 3, "f"), St("expr", 3, "alpha"),
       St("form", 4, "a"), St("form", 4, "L"),
       St("function", 4, "u"), St("solve", 5, ""),
       St("file", 6, "biharmonic.pvd"), St("write", 6, "biharmonic.pvd"),
       St("figure", 6, ""), St("plot", 6, "u") >>

\* Cahn-Hilliard, up to the time loop
CahnPre ==
    << St("import", 1, "random"), St("import", 1, "dolfin"),
       St("import", 1, "matplotlib"), St("config", 0, "plotting_backend"),
       St("predicate", 3, "InitialConditions"),
       St("class", 4, "CahnHilliardEquation"),
       St("param", 0, "lmbda"), St("param", 0, "dt"), St("param", 0, "theta"),
       St("config", 0, "form_compiler"),
       St("mesh", 2, ""), St("space", 2, "P1"), St("space", 2, "ME"),
       St("trial", 4, "du"), St("trial", 4, "q, v"),
       St("function", 4, "u"), St("function", 4, "u0"),
       St("form", 4, "split"),
       St("seed", 3, "u_init"),
       St("interpolate", 3, "u"), St("interpolate", 3, "u0"),
       St("form", 4, "f"), St("form", 4, "mu_mid"), St("form", 4, "L"),
       St("form", 4, "a"),
       St("solver", 4, "problem"), St("solver", 4, "solver"),
       St("file", 6, "output.pvd"),
       St("t0", 0, ""), St("T", 0, "") >>

CahnWhile == St("while", 0, "")

LoopBodyCopyLast ==
    << St("tadd", 0, ""), St("chsolve", 5, ""), St("copy", 0, ""),
       St("chwrite", 6, "output.pvd") >>

LoopBodyWriteFirst ==
    << St("tadd", 0, ""), St("copy", 0, ""), St("chwrite", 6, "output.pvd"),
       St("chsolve", 5, "") >>

\* the body of while (t < T)
LoopBody ==
    << St("tadd", 0, ""), St("copy", 0, ""), St("chsolve", 5, ""),
       St("chwrite", 6, "output.pvd") >>

CahnPost == << St("figure", 6, ""), St("plot", 6, "c"), St("show", 6, "") >>

CahnProgram == CahnPre \o <<CahnWhile>> \o LoopBody \o CahnPost

WhileIndex == Len(CahnPre) + 1

Notebooks == {"poisson", "nonlinear", "biharmonic", "cahn"}

Program(n) ==
    CASE n = "poisson" -> PoissonProgram
      [] n = "nonlinear" -> NonlinearProgram
      [] n = "biharmonic" -> BiharmonicProgram
      [] n = "cahn" -> CahnProgram
      [] OTHER -> <<>>

\* ---- running a notebook
MaxProcs == 2
MaxU == 1

\* the values a solution can take, as far as the time loop is concerned
UValues == 0..MaxU

SeedFixed(rank) == 2

\* random.seed(2 + MPI.rank(mpi_comm_world()))
SeedOf(rank) == 2 + rank

InitDemos ==
    /\ InitKernel
    /\ InitMaxwellIdle
    /\ InitEigIdle
    /\ InitBoundaryIdle
    /\ nb \in Notebooks
    /\ nprocs \in 1..MaxProcs
    /\ nb # "cahn" => nprocs = 1
    /\ dpc = 1
    /\ phase = 0
    /\ lastLetter = 0
    /\ done = {}
    /\ files = <<>>
    /\ plots = 0
    /\ dsolves = 0
    /\ seeds = <<>>
    /\ t_now = ZeroDouble
    /\ T = ZeroDouble
    /\ steps = 0
    /\ u_cur = 0
    /\ u0 = 0
    /\ uPrev = 0
    /\ written = <<>>

Running == nb \in Notebooks /\ dpc <= Len(Program(nb))

Cur == Program(nb)[dpc]

FollowingSkippingSolve ==
    IF dpc < Len(Program(nb)) /\ Program(nb)[dpc + 1].kind = "solve" THEN dpc + 2
    ELSE dpc + 1

\* the statement after the current one: the last statement of the loop
\* body is followed by the loop test
Following ==
    IF nb = "cahn" /\ dpc = WhileIndex + Len(LoopBody) THEN WhileIndex ELSE dpc + 1

\* what every statement of the given kinds does: the interpreter moves on
Step(kinds, nxt) ==
    /\ Running
    /\ Cur.kind \in kinds
    /\ dpc' = nxt
    /\ phase' = Max({phase, Cur.letter})
    /\ lastLetter' = Cur.letter
    /\ done' = done \cup {Cur.kind}
    /\ UNCHANGED <<nb, nprocs, kernelVars, maxwellVars, eigVars, bndVars>>

AddFile(fs, name) == IF name \in {fs[k] : k \in 1..Len(fs)} THEN fs ELSE Append(fs, name)

\* from dolfin import *, matplotlib, parameters[...] = ...
DmImport ==
    /\ Step({"import", "config"}, Following)
    /\ UNCHANGED <<files, plots, dsolves, seeds, t_now, T, steps, u_cur, u0, uPrev, written>>

\* mesh = UnitSquareMesh(...), V = FunctionSpace(...)
DmBuild ==
    /\ Step({"mesh", "space"}, Following)
    /\ UNCHANGED <<files, plots, dsolves, seeds, t_now, T, steps, u_cur, u0, uPrev, written>>

\* def boundary / class ...(SubDomain), Expression, Constant, DirichletBC,
\* model parameters
DmDefine ==
    /\ Step({"predicate", "class", "expr", "bc", "param"}, Following)
    /\ UNCHANGED <<files, plots, dsolves, seeds, t_now, T, steps, u_cur, u0, uPrev, written>>

\* TrialFunction, TestFunction, Function, the forms, the solver objects
DmForm ==
    /\ Step({"trial", "function", "form", "solver"}, Following)
    /\ UNCHANGED <<files, plots, dsolves, seeds, t_now, T, steps, u_cur, u0, uPrev, written>>

\* solve(a == L, u, bc) / solve(F == 0, u, bc, ...)
DmSolve ==
    /\ Step({"solve"}, Following)
    /\ dsolves' = dsolves + 1
    /\ UNCHANGED <<files, plots, seeds, t_now, T, steps, u_cur, u0, uPrev, written>>

\* file = File(name) only names the file; file << u writes it
DmWrite ==
    /\ Step({"file", "write"}, Following)
    /\ files' = IF Cur.kind = "write" THEN AddFile(files, Cur.arg) ELSE files
    /\ UNCHANGED <<plots, dsolves, seeds, t_now, T, steps, u_cur, u0, uPrev, written>>

\* plt.figure(), plot(...), interactive()
DmPlot ==
    /\ Step({"figure", "plot", "show"}, Following)
    /\ plots' = IF Cur.kind = "plot" THEN plots + 1 ELSE plots
    /\ UNCHANGED <<files, dsolves, seeds, t_now, T, steps, u_cur, u0, uPrev, written>>

\* u_init = InitialConditions(degree=1): __init__ seeds the generator, on
\* every process with its own rank
ChSeed ==
    /\ Step({"seed"}, Following)
    /\ seeds' = [rank \in 0..(nprocs - 1) |-> SeedOf(rank)]
    /\ UNCHANGED <<files, plots, dsolves, t_now, T, steps, u_cur, u0, uPrev, written>>

\* u.interpolate(u_init), u0.interpolate(u_init): eval draws fresh random
\* numbers at every call, so the two functions need not get the same values
ChInterpolate ==
    /\ Step({"interpolate"}, Following)
    /\ \E v \in UValues :
          IF Cur.arg = "u" THEN u_cur' = v /\ u0' = u0
          ELSE u0' = v /\ u_cur' = u_cur
    /\ UNCHANGED <<files, plots, dsolves, seeds, t_now, T, steps, uPrev, written>>

\* t = 0.0
ChSetT0 ==
    /\ Step({"t0"}, Following)
    /\ t_now' = ZeroDouble
    /\ UNCHANGED <<files, plots, dsolves, seeds, T, steps, u_cur, u0, uPrev, written>>

\* T = 50*dt
ChSetT ==
    /\ Step({"T"}, Following)
    /\ T' = TerminalTime(dt)
    /\ UNCHANGED <<files, plots, dsolves, seeds, t_now, steps, u_cur, u0, uPrev, written>>

\* while (t < T): a step starts, or the loop is left
ChWhile ==
    /\ Step({"while"}, IF DoubleLess(t_now, T) THEN dpc + 1 ELSE dpc + Len(LoopBody) + 1)
    /\ steps' = IF DoubleLess(t_now, T) THEN steps + 1 ELSE steps
    /\ uPrev' = u_cur
    /\ UNCHANGED <<files, plots, dsolves, seeds, t_now, T, u_cur, u0, written>>

\* t += dt
ChAdvance ==
    /\ Step({"tadd"}, Following)
    /\ t_now' = RoundDouble(AddExact(t_now, dt))
    /\ UNCHANGED <<files, plots, dsolves, seeds, T, steps, u_cur, u0, uPrev, written>>

\* u0.vector()[:] = u.vector()
ChCopy ==
    /\ Step({"copy"}, Following)
    /\ u0' = u_cur
    /\ UNCHANGED <<files, plots, dsolves, seeds, t_now, T, steps, u_cur, uPrev, written>>

\* solver.solve(problem, u.vector()): the solve returns with a new u
ChSolve ==
    /\ Step({"chsolve"}, Following)
    /\ \E v \in UValues : u_cur' = v
    /\ dsolves' = dsolves + 1
    /\ UNCHANGED <<files, plots, seeds, t_now, T, steps, u0, uPrev, written>>

\* file << (u.split()[0], t)
ChWrite ==
    /\ Step({"chwrite"}, Following)
    /\ written' = Append(written, t_now)
    /\ files' = AddFile(files, Cur.arg)
    /\ UNCHANGED <<plots, dsolves, seeds, t_now, T, steps, u_cur, u0, uPrev>>

NextDemos ==
    \/ DmImport \/ DmBuild \/ DmDefine \/ DmForm \/ DmSolve \/ DmWrite \/ DmPlot
    \/ ChSeed \/ ChInterpolate \/ ChSetT0 \/ ChSetT
    \/ ChWhile \/ ChAdvance \/ ChCopy \/ ChSolve \/ ChWrite

SpecDemos == InitDemos /\ [][NextDemos]_vars

\* the interpreter runs the next statement as long as there is one, and
\* every library call returns
SpecDemosFair == SpecDemos /\ WF_vars(NextDemos)

\* ======================================================== properties
\* ---- what the log of executed cells says, independently of the kernel
Last(s) == s[Len(s)]
Range(s) == {s[k] : k \in 1..Len(s)}

\* position of the first %load_ext in the log (0 if none)
FirstLoad(h) ==
    IF \E k \in 1..Len(h) : h[k].op = "load"
    THEN CHOOSE k \in 1..Len(h) :
            h[k].op = "load" /\ \A j \in 1..(k-1) : h[j].op # "load"
    ELSE 0

\* positions of the %run_split_cell cells that ran with the extension loaded
RunsOf(h) ==
    {k \in 1..Len(h) : h[k].op = "run" /\ FirstLoad(h) # 0 /\ FirstLoad(h) < k}

\* where the round that contains position k started: the previous
\* %run_split_cell, or the loading of the extension
RoundStart(h, k) ==
    Max({FirstLoad(h)} \cup {j \in RunsOf(h) : j < k})

\* the texts of the %%split_cell cells at positions lo..hi, one after another
RECURSIVE TextBetween(_, _, _)
TextBetween(h, lo, hi) ==
    IF lo > hi THEN <<>>
    ELSE (IF h[lo].op = "split" THEN h[lo].cell ELSE <<>>) \o TextBetween(h, lo + 1, hi)

\* the cells of the %%split_cell cells at positions lo..hi, as a list
RECURSIVE CellsBetween(_, _, _)
CellsBetween(h, lo, hi) ==
    IF lo > hi THEN <<>>
    ELSE (IF h[lo].op = "split" THEN <<h[lo].cell>> ELSE <<>>) \o CellsBetween(h, lo + 1, hi)

\* the k-th smallest element of a finite set of integers
RECURSIVE KthOf(_, _)
KthOf(S, k) ==
    LET least == CHOOSE x \in S : \A y \in S : x <= y
    IN  IF k = 1 THEN least ELSE KthOf(S \ {least}, k - 1)

\* every bound name was defined by a unit that %run_split_cell executed
BoundOnlyByRun ==
    \A nm \in Names :
        ns[nm] # Unbound => \E u \in 1..Len(executed) : DefsOf(executed[u], nm) # {}

\* C1: executing a %%split_cell cell only appends the cell's text to the
\* record: the step executes nothing and leaves the namespace alone, the
\* record grows by exactly that text, and a name is bound only once a
\* %run_split_cell has executed a unit that defines it.
C1_SplitCellDefers ==
    /\ []BoundOnlyByRun
    /\ [][ (history' # history /\ Last(history').op = "split" /\ loaded)
              => /\ ns' = ns
                 /\ executed' = executed
                 /\ record' = Append(record, Last(history').cell) ]_vars

\* a complete function definition sits in the record and its name is unbound
C1_Witness ==
    /\ loaded
    /\ record # <<>>
    /\ Last(record) = FragMyfuncHead
    /\ Compiles(FragMyfuncHead)
    /\ ns["myfunc"] = Unbound
    /\ Last(history).op = "split"

\* C2: the units the shell executed are, one per %run_split_cell, the
\* concatenation in recording order of the fragments recorded since the
\* extension was loaded or since the previous %run_split_cell.
C2_RunExecutesConcatenation ==
    /\ Len(executed) = Cardinality(RunsOf(history))
    /\ \A u \in 1..Len(executed) :
          LET k == KthOf(RunsOf(history), u)
          IN  executed[u] = TextBetween(history, RoundStart(history, k), k)

\* a run executed the two fragments of myfunc as one unit
C2_Witness ==
    /\ executed # <<>>
    /\ Last(executed) = FragMyfuncHead \o FragMyfuncReturn
    /\ Last(history).op = "run"

\* C3: the record holds exactly the fragments recorded since the last
\* %run_split_cell (or since loading); it is empty right after a run.
C3_RunResetsRecord ==
    /\ (FirstLoad(history) # 0) =>
          record = CellsBetween(history, RoundStart(history, Len(history) + 1), Len(history))
    /\ (FirstLoad(history) = 0) => record = <<>>
    /\ (history # <<>> /\ Last(history).op = "run") => record = <<>>

\* a second round ran, and its unit holds only the second round's fragment
C3_Witness ==
    /\ Len(executed) = 2
    /\ executed[1] = FragMyfuncHead
    /\ executed[2] = FragEigHead
    /\ record = <<>>

\* the notebook in which every round is written as one ordinary cell
RECURSIVE ReferenceNamespace(_, _)
ReferenceNamespace(h, upto) ==
    IF upto = 0 THEN EmptyNamespace
    ELSE IF upto \in RunsOf(h)
         THEN RunCell(ReferenceNamespace(h, upto - 1),
                      TextBetween(h, RoundStart(h, upto), upto))
         ELSE ReferenceNamespace(h, upto - 1)

\* the cells of split-cell-example.ipynb, run top to bottom
ExampleRun ==
    /\ Len(history) = 5
    /\ history[1].op = "load"
    /\ history[2] = [op |-> "split", cell |-> FragMyfuncHead]
    /\ history[3] = [op |-> "split", cell |-> FragMyfuncReturn]
    /\ history[4].op = "run"
    /\ history[5].op = "call"

\* C4: functions recorded over several %%split_cell cells and run are
\* defined as if each round had been written in one ordinary cell, calls
\* return the same results, and the example's myfunc(2, 3) gives 6.
C4_SplitEqualsOrdinaryCell ==
    /\ ns = ReferenceNamespace(history, Len(history))
    /\ (history # <<>> /\ Last(history).op = "call") =>
          callResult = CallMyfuncCell(ReferenceNamespace(history, Len(history)))
    /\ ExampleRun => callResult = [status |-> "ok", val |-> 6]

C4_Witness ==
    /\ ExampleRun
    /\ ns["myfunc"] = <<FragMyfuncHead[2]>> \o FragMyfuncReturn
    /\ callResult.status = "ok"

\* position of the preamble cell in the notebook
PreambleCell == CHOOSE k \in 1..Len(MaxwellCells) : MaxwellCells[k].kind = "preamble"

\* C5: when PETSc or SLEPc is absent the preamble prints the corresponding
\* message and calls exit(); the run never gets past the preamble cell, so
\* eigenvalues is never invoked and no SLEPcEigenSolver is constructed.
C5_MissingBackendExits ==
    /\ (~hasPETSc \/ ~hasSLEPc) =>
          /\ solverCalls = 0
          /\ ~frame.active
          /\ pc.cell <= PreambleCell
          /\ pc.stage # "done"
    /\ (~hasPETSc /\ pc.cell = PreambleCell /\ pc.stage # "petsc") =>
          /\ MsgPETSc \in Range(output)
          /\ exitRequested
    /\ (~hasSLEPc /\ pc.cell = PreambleCell /\ pc.stage \in {"end", "exited"}
            /\ (hasPETSc \/ exitMode = "deferred")) =>
          /\ MsgSLEPc \in Range(output)
          /\ exitRequested
    /\ (hasPETSc => MsgPETSc \notin Range(output))
    /\ (hasSLEPc => MsgSLEPc \notin Range(output))

\* SLEPc is absent, its message was printed and the run has exited
C5_Witness ==
    /\ hasPETSc /\ ~hasSLEPc
    /\ pc = Exited(PreambleCell)
    /\ output = <<MsgSLEPc>>
    /\ solverCalls = 0

\* the exact eigenvalues m^2 + n^2 with m, n in 0..r, not both zero,
\* as the (m, n) pairs that give them
ExactPairs(r) == {p \in (0..r) \X (0..r) : p # <<0, 0>>}
ExactValue(p) == p[1] * p[1] + p[2] * p[2]

\* s lists, in ascending order and with multiplicity, the Len(s) smallest
\* exact eigenvalues with m, n in 0..r
IsSmallestExact(s, r) ==
    /\ \A k \in 1..(Len(s) - 1) : s[k] <= s[k + 1]
    /\ \A v \in 0..(2 * r * r) :
          Cardinality({k \in 1..Len(s) : s[k] <= v}) =
              Min(Len(s), Cardinality({p \in ExactPairs(r) : ExactValue(p) <= v}))

\* C8: true_eig is [1,1,2,4,4,5,5,8,9,9,10,10], the 12 smallest numbers
\* m^2 + n^2 (with multiplicity, not counting 0) also when m and n range
\* beyond 0..5, and the slice [1:13] drops exactly the single 0.
C8_TrueEigTwelveSmallest ==
    frame.sorted # <<>> =>
        /\ frame.true_eig = <<1, 1, 2, 4, 4, 5, 5, 8, 9, 9, 10, 10>>
        /\ IsSmallestExact(frame.true_eig, MaxMN)
        /\ Cardinality({k \in 1..Len(frame.sorted) : frame.sorted[k] = 0}) = 1
        /\ <<0>> \o frame.true_eig = SubSeq(frame.sorted, 1, 13)

\* true_eig has been computed from all 36 items of the comprehension
C8_Witness ==
    /\ frame.active
    /\ Len(frame.lst) = RangeMN * RangeMN
    /\ Len(frame.sorted) = RangeMN * RangeMN
    /\ Len(frame.true_eig) = 12

\* C9: the neigs = 12 exact eigenvalues nearest the shift 5.5 are exactly
\* the first 12 of the ascending list (true_eig, from 1 to 10), and every
\* other exact eigenvalue, the nearest of which is 13, is strictly farther
\* from 5.5 than each of those 12.
C9_TwelveNearestTarget ==
    frame.sorted # <<>> =>
        LET t == frame.true_eig
            far == Max({TwiceDistanceToShift(t[k]) : k \in 1..Len(t)})
            within(d) == {p \in ExactPairs(MaxMN) : TwiceDistanceToShift(ExactValue(p)) <= d}
            beyond == ExactPairs(MaxMN) \ within(far)
        IN  /\ Len(t) = neigs
            /\ t[1] = 1 /\ t[neigs] = 10
            /\ \A d \in 0..(4 * MaxMN * MaxMN) :
                  Cardinality({k \in 1..Len(t) : TwiceDistanceToShift(t[k]) <= d}) =
                      Min(neigs, Cardinality(within(d)))
            /\ Cardinality(within(far)) = neigs
            /\ \E p \in beyond : ExactValue(p) = 13
            /\ \A p \in beyond :
                  TwiceDistanceToShift(ExactValue(p)) >= TwiceDistanceToShift(13)
            /\ TwiceDistanceToShift(13) > far

\* true_eig has been computed in the second call of print_eigenvalues,
\* after the solver was constructed with this shift for all four spaces
C9_Witness ==
    /\ frame.active
    /\ frame.true_eig # <<>>
    /\ frame.mesh = "crossed"
    /\ solverCalls = 4

IsSortedAscending(s) == \A k \in 1..(Len(s) - 1) : s[k] <= s[k + 1]
CountOf(s, v) == Cardinality({k \in 1..Len(s) : s[k] = v})
IsPermutation(a, b) ==
    /\ Len(a) = Len(b)
    /\ \A v \in Range(a) \cup Range(b) : CountOf(a, v) = CountOf(b, v)

\* C6: eigenvalues returns an array in non-decreasing order that is a
\* permutation of the collected values, each of which is the real part of
\* the pair the solver returned.
C6_ReturnsSortedPermutation ==
    /\ (epc = "done") =>
          /\ IsSortedAscending(eigResult)
          /\ IsPermutation(eigResult, computed_eigenvalues)
    /\ (lastIndex >= 0) =>
          /\ Len(computed_eigenvalues) = lastIndex + 1
          /\ computed_eigenvalues[lastIndex + 1] = lastPair[1]

\* the solver reported values out of order, one with an imaginary part
C6_Witness ==
    /\ epc = "done"
    /\ Len(computed_eigenvalues) >= 3
    /\ \E k \in 1..(Len(computed_eigenvalues) - 1) :
          computed_eigenvalues[k] > computed_eigenvalues[k + 1]
    /\ lastPair[2] # 0

\* C7: eigenvalues returns exactly min(12, number converged) values and
\* never asks the solver for an index at or beyond the converged count.
C7_ReturnsMinOfRequestedAndConverged ==
    /\ (lastIndex >= 0) => (lastIndex < nconv /\ lastIndex < neigs)
    /\ Len(computed_eigenvalues) <= neigs
    /\ (epc = "done") => Len(eigResult) = Min(12, nconv)

\* more converged than requested, and only the 12 requested are returned
C7_Witness ==
    /\ epc = "done"
    /\ nconv > neigs
    /\ Len(eigResult) = neigs
    /\ lastIndex = neigs - 1

\* Lemma (Maxwell notebook, with C3): the second %run_split_cell executes
\* the five fragments of print_eigenvalues and none of eigenvalues, whose
\* binding from the first round it leaves in place.
MaxwellSecondRoundFresh ==
    (Len(executed) = 2) =>
        /\ executed[1] = FragEigHead \o FragEigForms \o FragEigAssemble \o FragEigZero
                            \o FragEigSolver \o FragEigSolve \o FragEigCollect
        /\ executed[2] = FragPrintHead \o FragPrintNedelec \o FragPrintLagrange
                            \o FragPrintTrue \o FragPrintOut
        /\ DefsOf(executed[2], "eigenvalues") = {}
        /\ ns["eigenvalues"] = Tail(executed[1])
        /\ ns["print_eigenvalues"] = Tail(executed[2])
        /\ record = <<>>

\* ------------------------------------------------------------------ C16
\* C16: the Poisson boundary(x) is true exactly when x[0] < DOLFIN_EPS or
\* x[0] > 1 - DOLFIN_EPS: true on the edges x = 0 and x = 1, false for every
\* x[0] strictly between the thresholds (also on the edges y = 0 and y = 1),
\* and the same for every x[1].
C16_PoissonBoundary ==
    inside.fn = "poisson" =>
        /\ inside.val = (x_pt[1] < DOLFIN_EPS \/ x_pt[1] > One - DOLFIN_EPS)
        /\ x_pt[1] \in {0, One} => inside.val
        /\ (DOLFIN_EPS < x_pt[1] /\ x_pt[1] < One - DOLFIN_EPS) => ~inside.val
        /\ \A y \in Coords : boundary(<<x_pt[1], y>>) = inside.val

\* the predicate has rejected a point of the edge y = 0 that is on neither
\* of the edges x = 0 and x = 1
C16_Witness ==
    /\ inside.fn = "poisson"
    /\ x_pt[2] = 0
    /\ DOLFIN_EPS < x_pt[1] /\ x_pt[1] < One - DOLFIN_EPS
    /\ on_boundary
    /\ ~inside.val

\* ------------------------------------------------------------------ C17
\* C17: the nonlinear Poisson inside(x, on_boundary) is true exactly when
\* on_boundary holds and |x[0] - 1| < DOLFIN_EPS: false for every interior
\* point and for every boundary point on x = 0, y = 0 or y = 1 whose x[0] is
\* not within DOLFIN_EPS of 1.
C17_NonlinearInside ==
    inside.fn = "nonlinear" =>
        /\ inside.val = (on_boundary /\ Abs(x_pt[1] - One) < DOLFIN_EPS)
        /\ ~OnBoundary(x_pt) => ~inside.val
        /\ (OnBoundary(x_pt) /\ Abs(x_pt[1] - One) >= DOLFIN_EPS) => ~inside.val
        /\ x_pt[1] = One => inside.val

\* the predicate has rejected an interior point within DOLFIN_EPS of x = 1
C17_Witness ==
    /\ inside.fn = "nonlinear"
    /\ ~on_boundary
    /\ Abs(x_pt[1] - One) < DOLFIN_EPS
    /\ ~inside.val

\* ------------------------------------------------------------------ C18
\* C18: the biharmonic inside(x, on_boundary) returns exactly on_boundary
\* for every x: every point of the boundary is selected and no interior
\* point is.
C18_BiharmonicInside ==
    inside.fn = "biharmonic" =>
        /\ inside.val = on_boundary
        /\ OnBoundary(x_pt) => inside.val
        /\ ~OnBoundary(x_pt) => ~inside.val

\* the predicate has rejected an interior point
C18_Witness ==
    /\ inside.fn = "biharmonic"
    /\ ~OnBoundary(x_pt)
    /\ ~inside.val

\* ------------------------------------------------------------------ C19
\* C19: the preamble checks PETSc before SLEPc: when PETSc is absent only
\* the PETSc message is printed and the SLEPc check is never reached; when
\* both are present neither message is printed and execution continues
\* past the preamble.
C19_PETScCheckedBeforeSLEPc ==
    /\ (pc.stage # "idle" /\ ~hasPETSc) =>
           /\ MsgSLEPc \notin Range(output)
           /\ ~(pc.cell = PreambleCell /\ pc.stage \in {"slepc", "end"})
    /\ (pc.stage # "idle" /\ hasPETSc /\ hasSLEPc) =>
           /\ output = <<>> \/ pc.cell > PreambleCell
           /\ pc.stage # "exited"
           /\ ~exitRequested

\* ------------------------------------------------------------------ C11
\* C11 as stated: the statements of every notebook come in the order of the
\* step letters (a) to (f), no statement of a later letter before one of an
\* earlier letter, and no output file is written and nothing is plotted
\* before the solve call.
C11_StepsInLetterOrder ==
    /\ lastLetter # 0 => lastLetter = phase
    /\ dsolves = 0 => (files = <<>> /\ plots = 0)

\* C11, amended: every notebook imports the library first, builds the mesh
\* and the function space before the boundary condition, the trial and test
\* functions and the forms, calls solve only after the form (and, where
\* there is one, the boundary condition) is built, and plots and writes the
\* solution only after a solve call; the mesh file of the nonlinear Poisson
\* notebook is written before the solve, and class and expression
\* definitions are interleaved with the other steps.
C11_OutlineOrder ==
    /\ done # {} => "import" \in done
    /\ ({"bc", "trial", "function", "form"} \cap done # {}) => {"mesh", "space"} \subseteq done
    /\ dsolves > 0 => ("form" \in done /\ (nb # "cahn" => "bc" \in done))
    /\ plots > 0 => dsolves > 0
    /\ \A k \in 1..Len(files) : files[k] # "mesh.pvd" => dsolves > 0
    /\ written # <<>> => dsolves > 0

\* the nonlinear Poisson notebook has run to its end: the mesh file was
\* written first, the solution file after the solve and the two plots
C11_Witness ==
    /\ nb = "nonlinear"
    /\ dpc > Len(NonlinearProgram)
    /\ files = <<"mesh.pvd", "nonlinear_poisson.pvd">>
    /\ plots = 2
    /\ dsolves = 1

\* ------------------------------------------------------------------ C12
\* the Cahn-Hilliard run is about to execute a statement of the given kind
ChAt(kind) == nb = "cahn" /\ Running /\ Cur.kind = kind

\* the Cahn-Hilliard run has left the time loop
ChLoopLeft == nb = "cahn" /\ dpc > WhileIndex + Len(LoopBody)

\* C12: at every call of solver.solve the function u0 holds the value u had
\* at the end of the preceding step (for the first step, its initial
\* value), because u is copied into u0 at the beginning of the step; the
\* solve changes u only.
C12_PreviousStepAtSolve ==
    /\ ChAt("chsolve") => (u0 = uPrev /\ u0 = u_cur)
    /\ ChAt("chwrite") => u0 = uPrev

\* the second solve is about to be called, and the first one had changed u
C12_Witness ==
    /\ ChAt("chsolve")
    /\ steps = 2
    /\ dsolves = 1
    /\ u0 = 1
    /\ uPrev = 1

\* ------------------------------------------------------------------ C13
\* the value of t in the k-th time step, given the times written before
TimeOfStep(w, k) ==
    RoundDouble(AddExact(IF k = 1 THEN ZeroDouble ELSE w[k - 1], dt))

\* C13: the loop writes the c component once per time step, after that
\* step's solve and with that step's time t: the k-th written time is the
\* time of step k, the written times increase strictly, there is never a
\* write without its solve, and when the loop is left there are as many
\* writes as solves and as steps.
C13_OneWritePerStep ==
    nb = "cahn" =>
        /\ Len(written) <= dsolves /\ dsolves <= Len(written) + 1
        /\ dsolves <= steps /\ steps <= dsolves + 1
        /\ \A k \in 1..Len(written) : written[k] = TimeOfStep(written, k)
        /\ \A k \in 1..(Len(written) - 1) : DoubleLess(written[k], written[k + 1])
        /\ ChAt("chwrite") => (dsolves = steps /\ Len(written) = steps - 1)
        /\ (ChAt("while") \/ ChLoopLeft) => (Len(written) = dsolves /\ dsolves = steps)
        /\ (Len(written) = steps /\ steps > 0) => Last(written) = t_now

\* the third step has just written its time, after three solves
C13_Witness ==
    /\ ChAt("while")
    /\ steps = 3
    /\ dsolves = 3
    /\ Len(written) = 3
    /\ written[3] = t_now
    /\ DoubleLess(written[2], written[3])

\* ------------------------------------------------------------------ C14
\* C14 as stated: the loop performs exactly 50 steps, never starts a step
\* with t >= T, and the last written time equals T.
C14_LastWrittenTimeIsT ==
    /\ ChAt("tadd") => DoubleLess(t_now, T)
    /\ ChLoopLeft => (steps = NumSteps /\ Last(written) = T)

\* what holds of the loop in every state
C14_LoopBounds ==
    /\ ChAt("tadd") => DoubleLess(t_now, T)
    /\ nb = "cahn" => steps <= NumSteps
    /\ ChLoopLeft =>
          /\ steps = NumSteps
          /\ Len(written) = NumSteps
          /\ DoubleLess(written[NumSteps - 1], T)
          /\ DoubleLess(T, written[NumSteps])
          /\ DoubleLess(written[NumSteps], RoundDouble(AddExact(T, dt)))

\* C14, amended: provided every solve returns, the loop terminates after
\* exactly 50 steps and never starts a step with t >= T; the last written
\* time is the first t that is not below T, which in double arithmetic is
\* not T = 50*dt itself but the 50-fold sum of dt, larger than T by rounding
\* error (less than dt).
C14_FiftyStepsThenStops ==
    /\ []C14_LoopBounds
    /\ <>(dpc > Len(Program(nb)))

\* the loop has been left after 50 steps with a last written time above T
C14_Witness ==
    /\ ChLoopLeft
    /\ steps = NumSteps
    /\ ~DoubleLess(t_now, T)
    /\ Last(written) # T
    /\ Last(written) = t_now

\* ------------------------------------------------------------------ C15
\* C15: InitialConditions seeds the generator with 2 + rank, so on any two
\* processes with different MPI ranks the seeds differ.
C15_SeedsDifferByRank ==
    (nb = "cahn" /\ "seed" \in done) =>
        /\ DOMAIN seeds = 0..(nprocs - 1)
        /\ \A r \in DOMAIN seeds : seeds[r] = 2 + r
        /\ \A r1, r2 \in DOMAIN seeds : r1 # r2 => seeds[r1] # seeds[r2]

\* two processes have seeded their generators
C15_Witness ==
    /\ nb = "cahn"
    /\ "seed" \in done
    /\ nprocs >= 2
    /\ seeds[0] # seeds[1]

====
